---------------------------- MODULE Spec2Model ----------------------------
(***************************************************************************)
(* Order-tracking backend: the three tables declared by the SQLAlchemy     *)
(* models (customers, orders, order_items) with the constraints the        *)
(* storage layer enforces for them, and the sales report read from them.   *)
(*                                                                         *)
(* A row is a record of the columns that carry a constraint or feed the    *)
(* report.  unit_price is a Numeric(10, 2) value and is held as an integer *)
(* number of cents; a report total is a number of cents as well.           *)
(* Server-assigned timestamps (created_at, order_date) and the free-text   *)
(* columns company, notes and product_name are not part of the state.      *)
(***************************************************************************)
EXTENDS Integers, FiniteSets, Sequences

VARIABLES
    customers,      \* rows of table customers
    orders,         \* rows of table orders
    order_items,    \* rows of table order_items
    last,           \* the last request: operation, outcome, rows removed by cascade
                    \* (orders_removed, items_removed)
    response        \* body of the last GET /orders/report, NoResponse otherwise

vars == <<customers, orders, order_items, last, response>>
tables == <<customers, orders, order_items>>

(***************************************************************************)
(* Bounds of the model: primary keys are drawn from 1..Max*.               *)
(***************************************************************************)
MaxCustomers == 2
MaxOrders == 2
MaxItems == 2

CustomerIds == 1..MaxCustomers
OrderIds == 1..MaxOrders
ItemIds == 1..MaxItems

\* A text column value: None (SQL NULL) or a string s, held as Str(s), so
\* that no string, the four characters NULL included, equals None.
None == <<>>
Str(s) == <<s>>

\* Values a request may carry: the customer payloads (name, email), the
\* order statuses and the item payloads (quantity, unit_price in cents).
CustomerInputs ==
    { [name |-> Str("Ann"), email |-> Str("ann@example.com")],
      [name |-> Str(""),    email |-> Str("bob@example.com")],
      [name |-> None,       email |-> Str("bob@example.com")],
      [name |-> Str("Ann"), email |-> None] }
StatusInputs == {None, Str("pending"), Str("refunded"), Str("NULL")}
ItemInputs ==
    { [quantity |-> 1,  unit_price |-> 0],
      [quantity |-> 2,  unit_price |-> 250],
      [quantity |-> 0,  unit_price |-> 250],
      [quantity |-> -1, unit_price |-> 250],
      [quantity |-> 1,  unit_price |-> -1] }

NoResponse == [kind |-> "none"]

\* The statuses of check_status_values.
StatusValues == {"pending", "processing", "shipped", "delivered", "cancelled"}

(***************************************************************************)
(* Column constraints.                                                     *)
(***************************************************************************)
\* nullable=False
NotNull(v) == v # None

\* primary_key=True: no second row with the same id
CustomerPrimaryKey(id) == \A c \in customers : c.id # id
OrderPrimaryKey(id) == \A o \in orders : o.id # id
OrderItemPrimaryKey(id) == \A i \in order_items : i.id # id

\* unique=True on customers.email
\* (faulty variant: the column without unique=True)
EmailUnique_Off(email) == TRUE
EmailUnique(email) == \A c \in customers : c.email # email

\* ForeignKey("customers.id"): the referenced customer exists
\* (faulty variant: the column without its ForeignKey)
CustomerForeignKey_Off(customer_id) == TRUE
CustomerForeignKey(customer_id) == \E c \in customers : c.id = customer_id

\* ForeignKey("orders.id"): the referenced order exists
OrderForeignKey(order_id) == \E o \in orders : o.id = order_id

\* CHECK status IN (...); a CHECK passes on NULL, NOT NULL rejects it
\* (faulty variant: a sixth status in the list)
check_status_values_Off(status) ==
    status = None \/ status[1] \in StatusValues \cup {"refunded"}
check_status_values(status) == status = None \/ status[1] \in StatusValues

\* CHECK quantity > 0
\* (faulty variant: quantity >= 0)
check_positive_quantity_Off(quantity) == quantity >= 0
check_positive_quantity(quantity) == quantity > 0

\* CHECK unit_price >= 0
check_non_negative_price(unit_price) == unit_price >= 0

(***************************************************************************)
(* Relationships.                                                          *)
(***************************************************************************)
\* Customer.orders
CustomerOrders(c) == {o \in orders : o.customer_id = c.id}

\* Order.customer
\* (faulty variant: the join condition left out)
OrderCustomer_First(o) == CHOOSE c \in customers : \A d \in customers : c.id <= d.id
OrderCustomer(o) == CHOOSE c \in customers : c.id = o.customer_id

\* Order.items
\* (faulty variant: joined on order_items.id)
OrderItems_ById(o) == {i \in order_items : i.id = o.id}
OrderItems(o) == {i \in order_items : i.order_id = o.id}

\* OrderItem.order
ItemOrder(i) == CHOOSE o \in orders : o.id = i.order_id

Init ==
    /\ customers = {}
    /\ orders = {}
    /\ order_items = {}
    /\ last = [op |-> "none", outcome |-> "ok",
                orders_removed |-> 0, items_removed |-> 0]
    /\ response = NoResponse

(***************************************************************************)
(* Inserts.  A violated constraint fails the statement and the tables stay *)
(* as they were.                                                           *)
(***************************************************************************)
CustomerError(id, name, email) ==
    IF ~(NotNull(name) /\ NotNull(email)) THEN "not_null"
    ELSE IF ~CustomerPrimaryKey(id) THEN "primary_key"
    ELSE IF ~EmailUnique(email) THEN "unique_email"
    ELSE "ok"

InsertCustomer(id, name, email) ==
    LET outcome == CustomerError(id, name, email) IN
    /\ customers' = IF outcome = "ok"
                    THEN customers \cup {[id |-> id, name |-> name, email |-> email]}
                    ELSE customers
    /\ UNCHANGED <<orders, order_items>>
    /\ last' = [op |-> "insert_customer", outcome |-> outcome,
                orders_removed |-> 0, items_removed |-> 0]
    /\ response' = NoResponse

OrderError(id, customer_id, status) ==
    IF ~NotNull(status) THEN "not_null"
    ELSE IF ~check_status_values(status) THEN "check_status_values"
    ELSE IF ~OrderPrimaryKey(id) THEN "primary_key"
    ELSE IF ~CustomerForeignKey(customer_id) THEN "foreign_key"
    ELSE "ok"

InsertOrder(id, customer_id, status) ==
    LET outcome == OrderError(id, customer_id, status) IN
    /\ orders' = IF outcome = "ok"
                 THEN orders \cup {[id |-> id, customer_id |-> customer_id,
                                    status |-> status]}
                 ELSE orders
    /\ UNCHANGED <<customers, order_items>>
    /\ last' = [op |-> "insert_order", outcome |-> outcome,
                orders_removed |-> 0, items_removed |-> 0]
    /\ response' = NoResponse

OrderItemError(id, order_id, quantity, unit_price) ==
    IF ~check_positive_quantity(quantity) THEN "check_positive_quantity"
    ELSE IF ~check_non_negative_price(unit_price) THEN "check_non_negative_price"
    ELSE IF ~OrderItemPrimaryKey(id) THEN "primary_key"
    ELSE IF ~OrderForeignKey(order_id) THEN "foreign_key"
    ELSE "ok"

\* (faulty variant: the row of a statement failed on its foreign key stays)
InsertOrderItem_NoRollback(id, order_id, quantity, unit_price) ==
    LET outcome == OrderItemError(id, order_id, quantity, unit_price) IN
    /\ order_items' = IF outcome \in {"ok", "foreign_key"}
                      THEN order_items \cup {[id |-> id, order_id |-> order_id,
                                              quantity |-> quantity,
                                              unit_price |-> unit_price]}
                      ELSE order_items
    /\ UNCHANGED <<customers, orders>>
    /\ last' = [op |-> "insert_order_item", outcome |-> outcome,
                orders_removed |-> 0, items_removed |-> 0]
    /\ response' = NoResponse

InsertOrderItem(id, order_id, quantity, unit_price) ==
    LET outcome == OrderItemError(id, order_id, quantity, unit_price) IN
    /\ order_items' = IF outcome = "ok"
                      THEN order_items \cup {[id |-> id, order_id |-> order_id,
                                              quantity |-> quantity,
                                              unit_price |-> unit_price]}
                      ELSE order_items
    /\ UNCHANGED <<customers, orders>>
    /\ last' = [op |-> "insert_order_item", outcome |-> outcome,
                orders_removed |-> 0, items_removed |-> 0]
    /\ response' = NoResponse

(***************************************************************************)
(* Deletes by statement (DELETE FROM ... WHERE id = ...): the foreign keys *)
(* are ON DELETE CASCADE, so the storage layer removes the dependent rows. *)
(* last records how many dependent rows went with the parent.              *)
(***************************************************************************)
\* orders.customer_id ... ondelete="CASCADE"
OrdersCascade(customer_id) == {o \in orders : o.customer_id = customer_id}

\* order_items.order_id ... ondelete="CASCADE"
\* (faulty variant: the foreign key without ondelete="CASCADE")
OrderItemsCascade_Off(order_ids) == {}
OrderItemsCascade(order_ids) == {i \in order_items : i.order_id \in order_ids}

DeleteCustomer(id) ==
    LET gone_orders == OrdersCascade(id)
        gone_items == OrderItemsCascade({o.id : o \in gone_orders})
    IN
    /\ \E c \in customers : c.id = id
    /\ customers' = {c \in customers : c.id # id}
    /\ orders' = orders \ gone_orders
    /\ order_items' = order_items \ gone_items
    /\ last' = [op |-> "delete_customer", outcome |-> "ok",
                orders_removed |-> Cardinality(gone_orders),
                items_removed |-> Cardinality(gone_items)]
    /\ response' = NoResponse

DeleteOrder(id) ==
    LET gone_items == OrderItemsCascade({id}) IN
    /\ \E o \in orders : o.id = id
    /\ orders' = {o \in orders : o.id # id}
    /\ order_items' = order_items \ gone_items
    /\ UNCHANGED customers
    /\ last' = [op |-> "delete_order", outcome |-> "ok",
                orders_removed |-> 0, items_removed |-> Cardinality(gone_items)]
    /\ response' = NoResponse

DeleteOrderItem(id) ==
    /\ \E i \in order_items : i.id = id
    /\ order_items' = {i \in order_items : i.id # id}
    /\ UNCHANGED <<customers, orders>>
    /\ last' = [op |-> "delete_order_item", outcome |-> "ok",
                orders_removed |-> 0, items_removed |-> 0]
    /\ response' = NoResponse

(***************************************************************************)
(* Deletes through the ORM session (session.delete(obj); commit).  The     *)
(* relationships Customer.orders and Order.items carry the default cascade *)
(* ("save-update, merge") and no passive_deletes, so the unit of work      *)
(* first sets the foreign key of every child row to NULL; the column is    *)
(* nullable=False, the UPDATE fails and the transaction is rolled back.    *)
(* A parent without children is deleted.                                   *)
(***************************************************************************)
SessionDeleteCustomer(id) ==
    /\ \E c \in customers : c.id = id
    /\ LET c == CHOOSE x \in customers : x.id = id
           outcome == IF CustomerOrders(c) = {} THEN "ok" ELSE "not_null"
       IN
       /\ customers' = IF outcome = "ok" THEN customers \ {c} ELSE customers
       /\ last' = [op |-> "session_delete_customer", outcome |-> outcome,
                   orders_removed |-> 0, items_removed |-> 0]
    /\ UNCHANGED <<orders, order_items>>
    /\ response' = NoResponse

SessionDeleteOrder(id) ==
    /\ \E o \in orders : o.id = id
    /\ LET o == CHOOSE x \in orders : x.id = id
           outcome == IF OrderItems(o) = {} THEN "ok" ELSE "not_null"
       IN
       /\ orders' = IF outcome = "ok" THEN orders \ {o} ELSE orders
       /\ last' = [op |-> "session_delete_order", outcome |-> outcome,
                   orders_removed |-> 0, items_removed |-> 0]
    /\ UNCHANGED <<customers, order_items>>
    /\ response' = NoResponse

(***************************************************************************)
(* GET /orders/report.  One query lists the orders; for each order one     *)
(* more query fetches what the entry needs (customer and items).  The      *)
(* query counter starts at QueryCounterAtStart for every request.          *)
(***************************************************************************)
RECURSIVE SumTotal(_)
SumTotal(items) ==
    IF items = {} THEN 0
    ELSE LET i == CHOOSE x \in items : TRUE
         IN  i.quantity * i.unit_price + SumTotal(items \ {i})

ReportEntry(o) ==
    [ order_id      |-> o.id,
      customer_name |-> OrderCustomer(o).name,
      item_count    |-> Cardinality(OrderItems(o)),
      status        |-> o.status,
      total         |-> SumTotal(OrderItems(o)) ]

\* the orders the report lists: all of them
\* (faulty variant: an inner join with order_items)
ReportOrders_InnerJoin == {o \in orders : \E i \in order_items : i.order_id = o.id}
ReportOrders == orders

\* (faulty variant: the counter of the previous request carried over)
QueryCounter_Accumulating ==
    IF response.kind = "report" THEN response.metadata.query_count ELSE 0
QueryCounterAtStart == 0

RECURSIVE BuildReport(_, _, _)
BuildReport(todo, report, queries) ==
    IF todo = {} THEN [report |-> report, queries |-> queries]
    ELSE LET o == CHOOSE x \in todo : \A y \in todo : x.id <= y.id
         IN  BuildReport(todo \ {o}, Append(report, ReportEntry(o)), queries + 1)

GetOrdersReport ==
    LET built == BuildReport(ReportOrders, <<>>, QueryCounterAtStart + 1) IN
    /\ response' = [ kind     |-> "report",
                     report   |-> built.report,
                     metadata |-> [ total_orders |-> Len(built.report),
                                    query_count  |-> built.queries ] ]
    /\ last' = [op |-> "report", outcome |-> "ok",
                orders_removed |-> 0, items_removed |-> 0]
    /\ UNCHANGED tables

Next ==
    \/ \E id \in CustomerIds, c \in CustomerInputs :
           InsertCustomer(id, c.name, c.email)
    \/ \E id \in OrderIds, customer_id \in CustomerIds, status \in StatusInputs :
           InsertOrder(id, customer_id, status)
    \/ \E id \in ItemIds, order_id \in OrderIds, i \in ItemInputs :
           InsertOrderItem(id, order_id, i.quantity, i.unit_price)
    \/ \E id \in CustomerIds : DeleteCustomer(id)
    \/ \E id \in OrderIds : DeleteOrder(id)
    \/ \E id \in ItemIds : DeleteOrderItem(id)
    \/ \E id \in CustomerIds : SessionDeleteCustomer(id)
    \/ \E id \in OrderIds : SessionDeleteOrder(id)
    \/ GetOrdersReport

Spec == Init /\ [][Next]_vars

(***************************************************************************)
(* Properties.  The formulas read the tables and the response directly and *)
(* do not go through the operators above.                                  *)
(***************************************************************************)
IsReport == response.kind = "report"
Entries == {response.report[k] : k \in 1..Len(response.report)}

\* C1: a step that removes a Customer leaves no Order of that Customer and
\* no OrderItem of one of those Orders.
CustomerDeleteCascades ==
    [][\A c \in customers :
          (\A x \in customers' : x.id # c.id) =>
              LET mine == {o \in orders : o.customer_id = c.id} IN
              /\ \A o \in orders' : o.customer_id # c.id
              /\ \A o \in mine : o \notin orders'
              /\ \A i \in order_items :
                    i.order_id \in {o.id : o \in mine} => i \notin order_items'
              /\ \A i \in order_items' : i.order_id \notin {o.id : o \in mine}
      ]_vars

\* A Customer with an Order and an OrderItem was deleted while another
\* Customer's Order and OrderItem stayed.
CustomerDeleteCascadesWitness ==
    /\ last.op = "delete_customer"
    /\ last.orders_removed >= 1
    /\ last.items_removed >= 1
    /\ orders # {}
    /\ order_items # {}

\* C2: every Order references an existing Customer and every OrderItem an
\* existing Order, in every reachable state (so no insert with a missing
\* parent is ever stored).
ReferentialIntegrity ==
    /\ \A o \in orders : \E c \in customers : c.id = o.customer_id
    /\ \A i \in order_items : \E o \in orders : o.id = i.order_id
    /\ last.outcome = "foreign_key" =>
          last.op \in {"insert_order", "insert_order_item"}

\* An Order naming a missing Customer was rejected while other Orders exist.
ReferentialIntegrityWitness ==
    /\ last.op = "insert_order"
    /\ last.outcome = "foreign_key"
    /\ orders # {}

\* C3: total_orders is the length of the report, and the report holds
\* exactly one entry per Order of the dataset.
ReportListsEveryOrder ==
    IsReport =>
        /\ response.metadata.total_orders = Len(response.report)
        /\ Len(response.report) = Cardinality(orders)
        /\ \A o \in orders :
              Cardinality({k \in 1..Len(response.report) :
                              response.report[k].order_id = o.id}) = 1

\* One Customer with two Orders: two entries, total_orders = 2.
ReportListsEveryOrderWitness ==
    /\ IsReport
    /\ Cardinality(customers) = 1
    /\ Cardinality(orders) = 2
    /\ response.metadata.total_orders = 2
    /\ Len(response.report) = 2

\* quantity * unit_price of the item with primary key id when it belongs to
\* the order, 0 otherwise
AmountOf(id, order_id) ==
    IF \E i \in order_items : i.id = id /\ i.order_id = order_id
    THEN LET i == CHOOSE x \in order_items : x.id = id
         IN  i.quantity * i.unit_price
    ELSE 0

RECURSIVE TotalUpTo(_, _)
TotalUpTo(n, order_id) ==
    IF n = 0 THEN 0 ELSE AmountOf(n, order_id) + TotalUpTo(n - 1, order_id)

\* C4: the entry of every Order carries the name of the Customer the Order
\* references, the number of OrderItems of that Order, and the sum of
\* quantity * unit_price over those OrderItems only.
ReportEntryValues ==
    IsReport =>
        \A o \in orders :
            \E e \in Entries :
                /\ e.order_id = o.id
                /\ \E c \in customers :
                      c.id = o.customer_id /\ e.customer_name = c.name
                /\ e.item_count =
                      Cardinality({i \in order_items : i.order_id = o.id})
                /\ e.total = TotalUpTo(MaxItems, o.id)

\* Two Orders with one OrderItem each, 2 x 2.50 and 1 x 0.00: the totals
\* are 500 and 0 cents.
ReportEntryValuesWitness ==
    /\ IsReport
    /\ \E e1, e2 \in Entries :
          /\ e1.order_id # e2.order_id
          /\ e1.item_count = 1 /\ e1.total = 500
          /\ e2.item_count = 1 /\ e2.total = 0

\* C5 as stated: on a non-empty dataset every entry has item_count > 0 and
\* a non-empty customer_name.
EveryEntryHasItemsAndName ==
    (IsReport /\ orders # {}) =>
        \A e \in Entries : e.item_count > 0 /\ e.customer_name \notin {None, Str("")}

\* C5 as amended: item_count is never negative and is positive exactly for
\* the Orders that have an OrderItem; customer_name is never NULL and is
\* empty exactly when the name stored for the Order's Customer is empty.
EntryItemsAndNameFollowRows ==
    IsReport =>
        \A e \in Entries :
            /\ e.item_count >= 0
            /\ e.item_count > 0 <=> \E i \in order_items : i.order_id = e.order_id
            /\ e.customer_name # None
            /\ e.customer_name = Str("") <=>
                  \E o \in orders, c \in customers :
                      o.id = e.order_id /\ c.id = o.customer_id /\ c.name = Str("")

\* A report with an Order without items, and an Order of a Customer whose
\* name is the empty string next to one of a named Customer.
EntryItemsAndNameFollowRowsWitness ==
    /\ IsReport
    /\ \E e \in Entries : e.item_count = 0
    /\ \E e \in Entries : e.customer_name = Str("")
    /\ \E e \in Entries : e.customer_name = Str("Ann")

\* C6: no two Customers share an email, in every reachable state (so no
\* insert with the email of an existing Customer is ever stored).
EmailsAreUnique ==
    /\ \A c1, c2 \in customers : c1.email = c2.email => c1 = c2
    /\ last.outcome = "unique_email" =>
          /\ last.op = "insert_customer"
          /\ customers # {}

\* A second insert with the email of an existing Customer was rejected.
EmailsAreUniqueWitness ==
    /\ last.op = "insert_customer"
    /\ last.outcome = "unique_email"
    /\ Cardinality(customers) = 1

\* C7: every stored Order has one of the five statuses (so no insert with
\* another status is ever stored).
StatusIsClosed ==
    /\ \A o \in orders :
          o.status \in {Str("pending"), Str("processing"), Str("shipped"),
                         Str("delivered"), Str("cancelled")}
    /\ last.outcome = "check_status_values" => last.op = "insert_order"

\* An Order with status "refunded" was rejected while a Customer and an
\* Order exist.
StatusIsClosedWitness ==
    /\ last.op = "insert_order"
    /\ last.outcome = "check_status_values"
    /\ orders # {}

\* C8: every stored OrderItem has quantity > 0 and unit_price >= 0 (so no
\* insert with quantity <= 0 or unit_price < 0 is ever stored).
ItemQuantityAndPrice ==
    /\ \A i \in order_items : i.quantity > 0 /\ i.unit_price >= 0
    /\ last.outcome \in {"check_positive_quantity", "check_non_negative_price"} =>
          last.op = "insert_order_item"

\* An OrderItem with a negative price was rejected while the Order has an
\* item with price 0.
ItemQuantityAndPriceWitness ==
    /\ last.op = "insert_order_item"
    /\ last.outcome = "check_non_negative_price"
    /\ \E i \in order_items : i.unit_price = 0

\* C9: query_count of a report is one query for the list plus one per Order,
\* whatever was requested before; it exceeds 1 when there is an Order.
QueryCountIsNPlusOne ==
    IsReport =>
        /\ response.metadata.query_count = 1 + Cardinality(orders)
        /\ orders # {} => response.metadata.query_count > 1

\* A report over two Orders counted three queries.
QueryCountIsNPlusOneWitness ==
    /\ IsReport
    /\ Cardinality(orders) = 2
    /\ response.metadata.query_count = 3

\* C10: a rejected request and a report leave the three tables as they
\* were.
AllOrNothing ==
    [][(last'.outcome # "ok" \/ last'.op = "report") => UNCHANGED tables]_vars

\* An OrderItem naming a missing Order was rejected while the tables hold
\* rows.
AllOrNothingWitness ==
    /\ last.op = "insert_order_item"
    /\ last.outcome = "foreign_key"
    /\ customers # {} /\ orders # {} /\ order_items # {}

=============================================================================
